---------------------------- MODULE Spec2Model ----------------------------
(***************************************************************************)
(* Model of the Endicia integration of stock shipments (src/stock.py):     *)
(* label generation, shipping-cost request, the refund, SCAN-form and      *)
(* postage wizards, and the per-move weight computation.                   *)
(***************************************************************************)
EXTENDS Integers, Sequences, FiniteSets, Bags, TLC

(***************************************************************************)
(* Bounds of the model.                                                    *)
(***************************************************************************)
MaxWeight == 56
MaxQuantity == 50
MaxAttachments == 2
MaxMoves == 2
MaxPending == 2

(***************************************************************************)
(* IEEE-754 binary64 arithmetic, as far as get_weight_for_endicia uses it. *)
(* A positive double is [m |-> 53 bits, most significant first, m[1] = 1,  *)
(* e |-> exponent of the last bit]; its value is m * 2^e.  Zero is the     *)
(* record with an empty m.                                                 *)
(***************************************************************************)
MantissaBits == 53

FZero == [m |-> <<>>, e |-> 0]

\* Bit sequences are handled in limbs of 15 bits, so that every intermediate
\* product stays below 2^31.
LimbBase == 2^15

Zeros(n) == [i \in 1..n |-> 0]

AnyOne(b) == \E i \in 1..Len(b) : b[i] = 1

StripZeros(b) ==
    IF ~AnyOne(b) THEN <<>>
    ELSE LET f == CHOOSE i \in 1..Len(b) :
                      b[i] = 1 /\ \A j \in 1..(i - 1) : b[j] = 0
         IN  SubSeq(b, f, Len(b))

RECURSIVE ChunkValue(_, _)
ChunkValue(b, i) == IF i = 0 THEN 0 ELSE 2 * ChunkValue(b, i - 1) + b[i]

ToLimbs(b) ==
    LET n == (Len(b) + 14) \div 15
        p == Zeros(15 * n - Len(b)) \o b
    IN  [j \in 1..n |-> ChunkValue(SubSeq(p, 15 * (j - 1) + 1, 15 * j), 15)]

FromLimbs(l) ==
    [i \in 1..(15 * Len(l)) |->
        (l[((i - 1) \div 15) + 1] \div 2^(14 - ((i - 1) % 15))) % 2]

IntBits(n) == StripZeros([i \in 1..31 |-> (n \div 2^(31 - i)) % 2])

RECURSIVE LimbsValue(_, _)
LimbsValue(l, i) ==
    IF i = 0 THEN 0 ELSE LimbBase * LimbsValue(l, i - 1) + l[i]

\* The value of a bit sequence of at most 30 bits.
BitsToInt(b) == LET l == ToLimbs(b) IN LimbsValue(l, Len(l))

\* b + 1 on a bit sequence; the result is one bit longer when b is all ones.
Increment(b) ==
    IF \A i \in 1..Len(b) : b[i] = 1 THEN <<1>> \o Zeros(Len(b))
    ELSE LET z == CHOOSE i \in 1..Len(b) :
                      b[i] = 0 /\ \A j \in (i + 1)..Len(b) : b[j] = 1
         IN  [i \in 1..Len(b) |-> IF i < z THEN b[i]
                                  ELSE IF i = z THEN 1 ELSE 0]

\* l * k for a natural k < 2^15: one row of the schoolbook product, from the
\* last limb; the result is two limbs longer.
RECURSIVE MulLimbs(_, _, _, _)
MulLimbs(l, i, k, carry) ==
    IF i = 0 THEN <<carry \div LimbBase, carry % LimbBase>>
    ELSE LET t == l[i] * k + carry
         IN  Append(MulLimbs(l, i - 1, k, t \div LimbBase), t % LimbBase)

\* Round the exact value b * 2^e (b without leading zeros, sticky: a nonzero
\* part below the last bit of b) to the nearest double, ties to even.
Normalize(b, e, sticky) ==
    IF b = <<>> THEN FZero
    ELSE IF Len(b) <= MantissaBits
    THEN [m |-> b \o Zeros(MantissaBits - Len(b)),
          e |-> e - (MantissaBits - Len(b))]
    ELSE LET m0    == SubSeq(b, 1, MantissaBits)
             rest  == SubSeq(b, MantissaBits + 1, Len(b))
             e0    == e + Len(rest)
             below == sticky \/ AnyOne(Tail(rest))
             up    == rest[1] = 1 /\ (below \/ m0[MantissaBits] = 1)
             m1    == IF up THEN Increment(m0) ELSE m0
         IN  IF Len(m1) > MantissaBits
             THEN [m |-> SubSeq(m1, 1, MantissaBits), e |-> e0 + 1]
             ELSE [m |-> m1, e |-> e0]

\* The first n limbs of the binary expansion of rem/den (rem < den < 2^16).
RECURSIVE Expand(_, _, _)
Expand(rem, den, n) ==
    IF n = 0 THEN [limbs |-> <<>>, rem |-> rem]
    ELSE LET t == rem * LimbBase
             r == Expand(t % den, den, n - 1)
         IN  [limbs |-> <<t \div den>> \o r.limbs, rem |-> r.rem]

\* float(num/den): the double nearest to the decimal num/den, for
\* 2^-20 <= num/den < 2^31.
DecimalToFloat(num, den) ==
    LET x == Expand(num % den, den, 5)
    IN  Normalize(StripZeros(IntBits(num \div den) \o FromLimbs(x.limbs)),
                  -75, x.rem # 0)

\* The significant bits of a mantissa: the bits up to its last one.
Significant(m) ==
    LET n == CHOOSE i \in 1..Len(m) :
                 m[i] = 1 /\ \A j \in (i + 1)..Len(m) : m[j] = 0
    IN  SubSeq(m, 1, n)

\* Naturals as sequences of limbs, most significant first.
PadLimbs(l, n) == [i \in 1..(n - Len(l)) |-> 0] \o l

\* a < b for limb sequences of the same length.
LessLimbs(a, b) ==
    \E i \in 1..Len(a) : a[i] < b[i] /\ \A j \in 1..(i - 1) : a[j] = b[j]

\* a + b for limb sequences of the same length; the result is one limb
\* longer.
RECURSIVE AddLimbs(_, _, _, _)
AddLimbs(a, b, i, carry) ==
    IF i = 0 THEN <<carry>>
    ELSE LET t == a[i] + b[i] + carry
         IN  Append(AddLimbs(a, b, i - 1, t \div LimbBase), t % LimbBase)

\* a - b for limb sequences of the same length, a >= b: limb i borrows when
\* the limbs after it of a are less than those of b.
SubLimbs(a, b) ==
    LET n == Len(a)
    IN  [i \in 1..n |->
            (a[i] - b[i]
             - (IF LessLimbs(SubSeq(a, i + 1, n), SubSeq(b, i + 1, n))
                THEN 1 ELSE 0)
             + LimbBase) % LimbBase]

\* 2 * l, for an l whose first limb is below 2^14.
DoubleLimbs(l) ==
    [i \in 1..Len(l) |->
        (2 * l[i] + (IF i < Len(l) THEN l[i + 1] \div (LimbBase \div 2)
                     ELSE 0)) % LimbBase]

\* a * b for limb sequences: the rows of the schoolbook product, added up
\* from the first limb of b.
RECURSIVE MulRows(_, _, _)
MulRows(a, b, j) ==
    IF j = 0 THEN <<0>>
    ELSE LET above == MulRows(a, b, j - 1) \o <<0>>
             row   == MulLimbs(a, Len(a), b[j], 0)
             n     == (IF Len(above) > Len(row) THEN Len(above)
                       ELSE Len(row))
         IN  AddLimbs(PadLimbs(above, n), PadLimbs(row, n), n, 0)

\* A power of two: a mantissa of a single one.
PowerOfTwo(f) == f # FZero /\ ~AnyOne(Tail(f.m))

\* f * g in double arithmetic: the exact product of the mantissas, rounded.
\* The product with a power of two is exact and only moves the exponent.
FloatMul(f, g) ==
    IF f = FZero \/ g = FZero THEN FZero
    ELSE IF PowerOfTwo(g)
    THEN [m |-> f.m, e |-> f.e + g.e + (MantissaBits - 1)]
    ELSE IF PowerOfTwo(f)
    THEN [m |-> g.m, e |-> g.e + f.e + (MantissaBits - 1)]
    ELSE LET s == ToLimbs(Significant(g.m))
             p == MulRows(ToLimbs(f.m), s, Len(s))
         IN  Normalize(StripZeros(FromLimbs(p)),
                       f.e + g.e + (MantissaBits - Len(Significant(g.m))),
                       FALSE)

\* n quotient bits of rem / den as a number, and the remainder left
\* (rem < den, limb sequences of the same length, n <= 15).
RECURSIVE DivBits(_, _, _)
DivBits(rem, den, n) ==
    IF n = 0 THEN [q |-> 0, rem |-> rem]
    ELSE LET d    == DoubleLimbs(rem)
             less == LessLimbs(d, den)
             r    == DivBits(IF less THEN d ELSE SubLimbs(d, den), den, n - 1)
         IN  [q |-> (IF less THEN 0 ELSE 2^(n - 1)) + r.q, rem |-> r.rem]

\* n limbs of the binary expansion of rem / den, and the remainder left.
RECURSIVE DivExpand(_, _, _)
DivExpand(rem, den, n) ==
    IF n = 0 THEN [limbs |-> <<>>, rem |-> rem]
    ELSE LET c == DivBits(rem, den, 15)
             r == DivExpand(c.rem, den, n - 1)
         IN  [limbs |-> <<c.q>> \o r.limbs, rem |-> r.rem]

\* f / g in double arithmetic (g # 0): 60 bits of the quotient of the
\* mantissas after its leading bit, rounded.  The quotient by a power of
\* two is exact and only moves the exponent.
FloatDiv(f, g) ==
    IF f = FZero THEN FZero
    ELSE IF PowerOfTwo(g)
    THEN [m |-> f.m, e |-> f.e - g.e - (MantissaBits - 1)]
    ELSE LET a    == <<0>> \o ToLimbs(f.m)
             b    == <<0>> \o ToLimbs(g.m)
             less == LessLimbs(a, b)
             x    == DivExpand(IF less THEN a ELSE SubLimbs(a, b), b, 4)
         IN  Normalize(StripZeros((IF less THEN <<0>> ELSE <<1>>)
                                  \o FromLimbs(x.limbs)),
                       f.e - g.e - 60, AnyOne(FromLimbs(x.rem)))

\* float(n) for a natural n < 2^31.
IntToFloat(n) == Normalize(IntBits(n), 0, FALSE)

\* math.ceil(f), for f < 2^30.
FloatCeil(f) ==
    IF f = FZero THEN 0
    ELSE LET nfrac == -f.e
         IN  IF nfrac >= MantissaBits THEN 1
             ELSE BitsToInt(SubSeq(f.m, 1, MantissaBits - nfrac))
                  + (IF AnyOne(SubSeq(f.m, MantissaBits - nfrac + 1,
                                      MantissaBits))
                     THEN 1 ELSE 0)

\* round(f), for 0 <= f < 2^30: the nearest integer, a half rounded away
\* from zero (Python 2's round).
FloatRound(f) ==
    IF f = FZero THEN 0
    ELSE LET nfrac == -f.e
         IN  IF nfrac > MantissaBits THEN 0
             ELSE BitsToInt(SubSeq(f.m, 1, MantissaBits - nfrac))
                  + f.m[MantissaBits - nfrac + 1]

(***************************************************************************)
(* Units of measure.  factor: the size of the unit in the smallest unit of *)
(* its category; rounding: 1 / (the unit's rounding precision).            *)
(* The host's Uom.compute_qty works in doubles:                            *)
(*   amount = qty * from_uom.factor / to_uom.factor                        *)
(*   round(amount / to_uom.rounding) * to_uom.rounding                     *)
(***************************************************************************)
Ounce == [symbol |-> "oz", category |-> "weight", factor |-> 1,  rounding |-> 100]
Pound == [symbol |-> "lb", category |-> "weight", factor |-> 16, rounding |-> 100]
Unit  == [symbol |-> "u",  category |-> "units",  factor |-> 1,  rounding |-> 1]
Dozen == [symbol |-> "dz", category |-> "units",  factor |-> 12, rounding |-> 1]

WeightUoms   == {Ounce, Pound}
QuantityUoms == {Unit, Dozen}

\* The rounding precision of a unit as a double: 0.01 or 1.0.
UomRounding(uom) == DecimalToFloat(1, uom.rounding)

\* Uom.round(number, precision): round(number / precision) * precision.
UomRound(number, precision) ==
    FloatMul(IntToFloat(FloatRound(FloatDiv(number, precision))), precision)

\* ProductUom.compute_qty(from_uom, qty, to_uom): qty converted by the
\* factors and rounded to the precision of to_uom.
compute_qty(from_uom, qty, to_uom) ==
    IF qty = FZero \/ from_uom.category # to_uom.category THEN qty
    ELSE UomRound(FloatDiv(FloatMul(qty, IntToFloat(from_uom.factor)),
                           IntToFloat(to_uom.factor)),
                  UomRounding(to_uom))

(***************************************************************************)
(* Stock moves.  weight: <<>> when the product has no weight, else <<w>>,  *)
(* w hundredths of the weight unit (a Decimal); quantity: quarters of the  *)
(* move's unit (a float).                                                  *)
(***************************************************************************)
NoWeight == <<>>

Goods(weight, weight_uom, quantity, uom, default_uom) ==
    [type |-> "goods", weight |-> weight, weight_uom |-> weight_uom,
     quantity |-> quantity, uom |-> uom, default_uom |-> default_uom]

Service(weight, weight_uom, quantity, uom, default_uom) ==
    [type |-> "service", weight |-> weight, weight_uom |-> weight_uom,
     quantity |-> quantity, uom |-> uom, default_uom |-> default_uom]

\* Mutant: only a missing weight counts, as in "weight is None".
WeightIsNotNone(weight) == weight # NoWeight

\* Python's truth value of product.weight: None and Decimal(0) are false.
WeightIsSet(weight) == weight # NoWeight /\ weight[1] # 0

Returned(v) == [error |-> "", value |-> v]
Raised(e)   == [error |-> e, value |-> 0]

MoveQuantity(move) ==
    IF move.uom # move.default_uom
    THEN compute_qty(move.uom, DecimalToFloat(move.quantity, 4),
                     move.default_uom)
    ELSE DecimalToFloat(move.quantity, 4)

MoveWeight(move) ==
    FloatMul(DecimalToFloat(move.weight[1], 100), MoveQuantity(move))

MoveWeightInOunces(move) ==
    IF move.weight_uom.symbol # "oz"
    THEN compute_qty(move.weight_uom, MoveWeight(move), Ounce)
    ELSE MoveWeight(move)

RoundUp(f) == FloatCeil(f)

get_weight_for_endicia(move) ==
    IF move.type = "service" THEN Returned(0)
    ELSE IF ~WeightIsSet(move.weight) THEN Raised("weight_required")
    ELSE Returned(RoundUp(MoveWeightInOunces(move)))

\* The moves of the shipments of Spec and SpecLabel: 25 units of a product
\* of 1.12 oz a unit; a product without weight; a service.
WeighedMove    == Goods(<<112>>, Ounce, 100, Unit, Unit)
WeightlessMove == Goods(NoWeight, Ounce, 4, Unit, Unit)
ServiceMove    == Service(NoWeight, Ounce, 4, Unit, Unit)

ShipmentMoves == {WeighedMove, WeightlessMove, ServiceMove}

\* move.get_weight_for_endicia() on a move of a shipment: the shipments of
\* Spec, SpecLabel and SpecOrder hold the moves above, whose weights are
\* computed once.
ShipmentMoveWeights == [move \in ShipmentMoves |-> get_weight_for_endicia(move)]

MoveWeightForEndicia(move) == ShipmentMoveWeights[move]

(***************************************************************************)
(* Text is a sequence of pieces, so that formatting and concatenation are  *)
(* concatenation of sequences.                                             *)
(***************************************************************************)
Shipments == {1, 2}

NoCarrier == "none"
Carriers  == {NoCarrier, "product", "endicia"}

ShipmentStates == {"draft", "packed", "done"}

NoMailclass == ""
Mailclasses == {NoMailclass, "Priority"}

\* The messages of raise_user_error, by key.
UserErrors ==
    {"invalid_state", "wrong_carrier", "tracking_number_already_present",
     "mailclass_missing", "weight_required", "warehouse_address_required",
     "error_label"}

VARIABLES
    shipment,     \* stock.shipment.out: the fields of every shipment
    attachment,   \* ir.attachment: the attachments, in order of creation
    pending,      \* the calls blocked in send_request(): a bag of
                  \* [op, args, sent], sent holding what the call read
    last          \* the last step of a call: operation, arguments, request
                  \* sent, vendor's reply, error raised, value returned

vars == <<shipment, attachment, pending, last>>

\* sent, reply and result hold at most one element.  A call that sent its
\* request and has neither reply nor error is blocked in send_request();
\* one with an error and no reply ended in the vendor library's
\* RequestError.
NoCall == [op |-> "none", args |-> <<>>, sent |-> <<>>, reply |-> <<>>,
           error |-> "", result |-> <<>>]

Call(op, args, sent, reply, error, result) ==
    [op |-> op, args |-> args, sent |-> sent, reply |-> reply,
     error |-> error, result |-> result]

(***************************************************************************)
(* The methods are called over RPC and take no lock.  A method that calls  *)
(* send_request() runs in two steps: up to send_request(), where it        *)
(* blocks, and from the vendor's answer on.  Up to send_request() a method *)
(* only reads, so a call begins whatever calls are waiting, and steps of   *)
(* other calls come in between the two steps.                              *)
(***************************************************************************)
\* The call has sent its request and blocks in send_request().
Waits(op, args, request) ==
    /\ BagCardinality(pending) < MaxPending
    /\ pending' = pending (+) SetToBag({[op |-> op, args |-> args,
                                         sent |-> <<request>>]})
    /\ last' = Call(op, args, <<request>>, <<>>, "", <<>>)
    /\ UNCHANGED <<shipment, attachment>>

\* send_request() of a blocked call returns or raises.
Resumes(call) ==
    /\ BagIn(call, pending)
    /\ pending' = pending (-) SetToBag({call})

(***************************************************************************)
(* ShipmentOut.make_endicia_labels                                         *)
(***************************************************************************)
\* Mutant: the state check lets a draft shipment through.
StateAllowsLabelsDraft(state) == state \in {"draft", "packed", "done"}

StateAllowsLabels(state) == state \in {"packed", "done"}

\* Mutant: any carrier passes, whatever its cost method.
CarrierIsSet(carrier) == carrier # NoCarrier

CarrierIsEndicia(carrier) == carrier # NoCarrier /\ carrier = "endicia"

\* Mutant: the existing tracking number is not looked at.
HasTrackingNumberIgnored(sh) == FALSE

HasTrackingNumber(sh) == sh.tracking_number # ""

\* Mutant: the mail class is not checked.
HasMailclassUnchecked(sh) == TRUE

HasMailclass(sh) == sh.endicia_mailclass # NoMailclass

\* The weights of the outgoing moves, as map() computes them in order: the
\* first error raised, or the list of the weights.
RECURSIVE MoveWeights(_, _)
MoveWeights(moves, i) ==
    IF i > Len(moves) THEN Returned(<<>>)
    ELSE LET w == MoveWeightForEndicia(moves[i])
         IN  IF w.error # "" THEN Raised(w.error)
             ELSE LET rest == MoveWeights(moves, i + 1)
                  IN  IF rest.error # "" THEN rest
                      ELSE Returned(<<w.value>> \o rest.value)

RECURSIVE Sum(_, _)
Sum(s, i) == IF i > Len(s) THEN 0 ELSE s[i] + Sum(s, i + 1)

\* Mutant: the carrier is checked before the state.
LabelPreconditionErrorCarrierFirst(sh, move_weights) ==
    IF ~CarrierIsEndicia(sh.carrier) THEN "wrong_carrier"
    ELSE IF ~StateAllowsLabels(sh.state) THEN "invalid_state"
    ELSE IF HasTrackingNumber(sh) THEN "tracking_number_already_present"
    ELSE IF ~HasMailclass(sh) THEN "mailclass_missing"
    ELSE IF move_weights.error # "" THEN move_weights.error
    ELSE IF ~sh.warehouse_address THEN "warehouse_address_required"
    ELSE ""

\* The checks before the request is sent, in the order of the code: the key
\* of the first user error raised, or "".
\* move_weights: the outcome of MoveWeights on the outgoing moves.
LabelPreconditionError(sh, move_weights) ==
    IF ~StateAllowsLabels(sh.state) THEN "invalid_state"
    ELSE IF ~CarrierIsEndicia(sh.carrier) THEN "wrong_carrier"
    ELSE IF HasTrackingNumber(sh) THEN "tracking_number_already_present"
    ELSE IF ~HasMailclass(sh) THEN "mailclass_missing"
    ELSE IF move_weights.error # "" THEN move_weights.error
    ELSE IF ~sh.warehouse_address THEN "warehouse_address_required"
    ELSE ""

LabelRequest(s, sh, move_weights) ==
    [api |-> "label", shipment |-> s, mail_class |-> sh.endicia_mailclass,
     weight_oz |-> Sum(move_weights.value, 1)]

\* What the vendor may answer to a label request: a RequestError, or a
\* label with its tracking number (empty for a mail class without
\* tracking), postage in cents and numbered images.
LabelTrackingNumbers == {"", "9400"}
LabelPostages        == {235}
LabelImages          == {<<"1">>, <<"1", "2">>}

LabelResponses ==
    {r \in [TrackingNumber : LabelTrackingNumbers,
            FinalPostage : LabelPostages, images : LabelImages] :
        r.TrackingNumber = "" => Len(r.images) = 1}

\* Shipment.write([self], {'tracking_number': ..., 'cost': ...})
WriteLabel(sh, result) ==
    [sh EXCEPT !.tracking_number = result.TrackingNumber,
               !.cost = result.FinalPostage]

\* One attachment per image returned.
LabelAttachments(s, result) ==
    [i \in 1..Len(result.images) |->
        [name     |-> <<result.TrackingNumber, "_", result.images[i],
                        "_USPS-Endicia.png">>,
         resource |-> <<"stock.shipment.out", ",", s>>]]

\* Mutant: the tracking number is written before the request is sent.
LabelFailsAfterWrite(s, sent, error) ==
    /\ last' = Call("make_endicia_labels", <<s>>, sent, <<>>, error, <<>>)
    /\ shipment' = IF sent # <<>>
                   THEN [shipment EXCEPT ![s].tracking_number = "pending"]
                   ELSE shipment
    /\ UNCHANGED attachment

LabelFails(s, sent, error) ==
    /\ last' = Call("make_endicia_labels", <<s>>, sent, <<>>, error, <<>>)
    /\ UNCHANGED <<shipment, attachment>>

LabelSucceeds(s, request, result) ==
    /\ Len(attachment) + Len(result.images) <= MaxAttachments
    /\ shipment' = [shipment EXCEPT ![s] = WriteLabel(shipment[s], result)]
    /\ attachment' = attachment \o LabelAttachments(s, result)
    /\ last' = Call("make_endicia_labels", <<s>>, <<request>>, <<result>>,
                    "", <<result.TrackingNumber>>)

\* The method up to send_request(): the checks, then the request.
make_endicia_labels(s) ==
    LET move_weights == MoveWeights(shipment[s].outgoing_moves, 1)
        error        == LabelPreconditionError(shipment[s], move_weights)
        request      == LabelRequest(s, shipment[s], move_weights)
    IN  IF error # ""
        THEN LabelFails(s, <<>>, error) /\ UNCHANGED pending
        ELSE Waits("make_endicia_labels", <<s>>, request)

\* The method from send_request() on: the RequestError becomes a user
\* error, an answer is written to the shipment with self.write (278-281),
\* which sets tracking_number and cost whatever they are by then.
make_endicia_labels_resume(call) ==
    /\ call.op = "make_endicia_labels"
    /\ Resumes(call)
    /\ \/ LabelFails(call.args[1], call.sent, "error_label")
       \/ \E result \in LabelResponses :
              LabelSucceeds(call.args[1], call.sent[1], result)

(***************************************************************************)
(* ShipmentOut.get_endicia_shipping_cost                                   *)
(***************************************************************************)
PostageAmounts == {310}

\* The outcome before the request is sent: a user error, the AttributeError
\* of warehouse.address.zip on a warehouse without address, or "".
CostPreconditionError(sh, move_weights) ==
    IF ~HasMailclass(sh) THEN "mailclass_missing"
    ELSE IF move_weights.error # "" THEN move_weights.error
    ELSE IF ~sh.warehouse_address THEN "AttributeError"
    ELSE ""

CostRequest(s, sh, move_weights) ==
    [api |-> "postage", shipment |-> s, mail_class |-> sh.endicia_mailclass,
     weight_oz |-> Sum(move_weights.value, 1)]

\* send_request is not guarded here: the vendor library's RequestError
\* leaves the call as it is.  The call blocks in send_request() and returns
\* the amount of the response when it comes.
get_endicia_shipping_cost(s) ==
    LET move_weights == MoveWeights(shipment[s].outgoing_moves, 1)
        error        == CostPreconditionError(shipment[s], move_weights)
        request      == CostRequest(s, shipment[s], move_weights)
    IN  IF error # ""
        THEN /\ last' = Call("get_endicia_shipping_cost", <<s>>, <<>>,
                             <<>>, error, <<>>)
             /\ UNCHANGED <<shipment, attachment, pending>>
        ELSE Waits("get_endicia_shipping_cost", <<s>>, request)

get_endicia_shipping_cost_resume(call) ==
    /\ call.op = "get_endicia_shipping_cost"
    /\ Resumes(call)
    /\ \/ last' = Call(call.op, call.args, call.sent, <<>>,
                       "RequestError", <<>>)
       \/ \E amount \in PostageAmounts :
              last' = Call(call.op, call.args, call.sent, <<amount>>, "",
                           <<amount>>)
    /\ UNCHANGED <<shipment, attachment>>

(***************************************************************************)
(* The carrier of a packed or done shipment can be changed (__setup__).    *)
(***************************************************************************)
CarrierIsEditable(sh) == sh.state \in {"packed", "done"}

set_carrier(s, carrier) ==
    /\ CarrierIsEditable(shipment[s])
    /\ carrier # shipment[s].carrier
    /\ shipment' = [shipment EXCEPT ![s].carrier = carrier]
    /\ last' = Call("set_carrier", <<s>>, <<>>, <<>>, "", <<>>)
    /\ UNCHANGED <<attachment, pending>>

(***************************************************************************)
(* The wizards act on the selected shipments (active_ids), in order.       *)
(***************************************************************************)
Selections ==
    {ids \in UNION {[1..n -> Shipments] : n \in 1..Cardinality(Shipments)} :
        \A i, j \in 1..Len(ids) : i # j => ids[i] # ids[j]}

\* The first selected shipment whose carrier is not Endicia, or 0.
FirstWrongCarrier(ids) ==
    IF \A i \in 1..Len(ids) : CarrierIsEndicia(shipment[ids[i]].carrier)
    THEN 0
    ELSE CHOOSE i \in 1..Len(ids) :
             /\ ~CarrierIsEndicia(shipment[ids[i]].carrier)
             /\ \A j \in 1..(i - 1) : CarrierIsEndicia(shipment[ids[j]].carrier)

PicNumbers(ids) == [i \in 1..Len(ids) |-> shipment[ids[i]].tracking_number]

\* The shipment the loop variable is left on: the last one selected.
LoopShipment(ids) == ids[Len(ids)]

(***************************************************************************)
(* EndiciaRefundRequestWizard.default_request_refund                       *)
(***************************************************************************)
\* The vendor answers with one PICNumber entry for each number submitted.
RefundEntries ==
    {[IsApproved |-> "YES", ErrorMsg |-> "accepted"],
     [IsApproved |-> "NO",  ErrorMsg |-> "denied"]}

RefundResponses(n) == [1..n -> RefundEntries]

\* result.RefundList.PICNumber is the first entry of the list.
RefundEntryRead(response) == response[1]

\* Mutant: the approval flag is not looked at.
RefundApprovedAlways(response) == TRUE

RefundApproved(response) == RefundEntryRead(response).IsApproved = "YES"

RefundedShipments(ids) == {LoopShipment(ids)}

\* Mutant: the refund also clears the tracking number of the shipment.
MarkRefundedClearsTracking(ids) ==
    [s \in Shipments |->
        IF s \in RefundedShipments(ids)
        THEN [shipment[s] EXCEPT !.endicia_refunded = TRUE,
                                 !.tracking_number = ""]
        ELSE shipment[s]]

MarkRefunded(ids) ==
    [s \in Shipments |->
        IF s \in RefundedShipments(ids)
        THEN [shipment[s] EXCEPT !.endicia_refunded = TRUE]
        ELSE shipment[s]]

RefundResult(response) ==
    [refund_status   |-> <<RefundEntryRead(response).ErrorMsg>>,
     refund_approved |-> RefundApproved(response)]

\* The wizard up to send_request(): the carriers are checked and the
\* tracking numbers read.
default_request_refund(ids) ==
    IF FirstWrongCarrier(ids) # 0
    THEN /\ last' = Call("request_refund", ids, <<>>, <<>>,
                         "wrong_carrier", <<>>)
         /\ UNCHANGED <<shipment, attachment, pending>>
    ELSE Waits("request_refund", ids,
               [api |-> "refund", pic_numbers |-> PicNumbers(ids)])

\* The wizard from send_request() on; the RequestError is not caught.
default_request_refund_resume(call) ==
    /\ call.op = "request_refund"
    /\ Resumes(call)
    /\ LET ids == call.args
       IN  \/ /\ last' = Call("request_refund", ids, call.sent, <<>>,
                              "RequestError", <<>>)
              /\ UNCHANGED <<shipment, attachment>>
           \/ \E response \in RefundResponses(Len(ids)) :
                  /\ shipment' = IF RefundApproved(response)
                                 THEN MarkRefunded(ids) ELSE shipment
                  /\ last' = Call("request_refund", ids, call.sent,
                                  <<response>>, "",
                                  <<RefundResult(response)>>)
                  /\ UNCHANGED attachment

(***************************************************************************)
(* SCANFormWizard.default_make_scanform                                    *)
(***************************************************************************)
ScanResponses ==
    [SCANForm : {TRUE}, SubmissionID : {"77"}, ErrorMsg : {""}]
    \cup [SCANForm : {FALSE}, SubmissionID : {""}, ErrorMsg : {"rejected"}]

\* Mutant: the response is taken to hold a SCANForm whenever it is read.
HasScanFormAlways(response) == TRUE

HasScanForm(response) == response.SCANForm

ScanAttachment(ids, response) ==
    [name     |-> <<"SCAN", response.SubmissionID, ".png">>,
     resource |-> <<"stock.shipment.out", ",", LoopShipment(ids)>>]

ScanResult(response) ==
    IF ~HasScanForm(response)
    THEN [response |-> <<response.ErrorMsg>>]
    ELSE [response |-> <<"SCAN", response.SubmissionID>>]

\* The wizard up to send_request(): the carriers are checked and the
\* tracking numbers read.
default_make_scanform(ids) ==
    IF FirstWrongCarrier(ids) # 0
    THEN /\ last' = Call("make_scanform", ids, <<>>, <<>>,
                         "wrong_carrier", <<>>)
         /\ UNCHANGED <<shipment, attachment, pending>>
    ELSE Waits("make_scanform", ids,
               [api |-> "scanform", pic_numbers |-> PicNumbers(ids)])

\* The wizard from send_request() on; the RequestError is not caught.
default_make_scanform_resume(call) ==
    /\ call.op = "make_scanform"
    /\ Resumes(call)
    /\ LET ids == call.args
       IN  \/ /\ last' = Call("make_scanform", ids, call.sent, <<>>,
                              "RequestError", <<>>)
              /\ UNCHANGED <<shipment, attachment>>
           \/ \E response \in ScanResponses :
                  /\ HasScanForm(response) =>
                         Len(attachment) < MaxAttachments
                  /\ attachment' = IF HasScanForm(response)
                                   THEN Append(attachment,
                                               ScanAttachment(ids, response))
                                   ELSE attachment
                  /\ last' = Call("make_scanform", ids, call.sent,
                                  <<response>>, "",
                                  <<ScanResult(response)>>)
                  /\ UNCHANGED shipment

(***************************************************************************)
(* BuyPostageWizard.default_buy_postage.  The wizard reads and writes no   *)
(* record; it blocks in send_request() and reports the vendor's answer.    *)
(***************************************************************************)
Companies == {1}
Amounts   == {10, 500}

BuyResponses ==
    [hasErrorMessage : {TRUE},  ErrorMessage : {"declined"}]
    \cup [hasErrorMessage : {FALSE}, ErrorMessage : {""}]

\* Mutant: the vendor's ErrorMessage is not looked at.
BuyResponseTextSuccess(response) == "Success"

BuyResponseText(response) ==
    IF response.hasErrorMessage THEN response.ErrorMessage ELSE "Success"

BuyResult(company, amount, response) ==
    [company |-> company, amount |-> amount,
     response |-> <<BuyResponseText(response)>>]

default_buy_postage(company, amount) ==
    Waits("buy_postage", <<company, amount>>,
          [api |-> "buy_postage", recredit_amount |-> amount])

default_buy_postage_resume(call) ==
    /\ call.op = "buy_postage"
    /\ Resumes(call)
    /\ \/ last' = Call(call.op, call.args, call.sent, <<>>,
                       "RequestError", <<>>)
       \/ \E response \in BuyResponses :
              last' = Call(call.op, call.args, call.sent, <<response>>, "",
                           <<BuyResult(call.args[1], call.args[2],
                                       response)>>)
    /\ UNCHANGED <<shipment, attachment>>

(***************************************************************************)
(* StockMove.get_weight_for_endicia, called on a move of a shipment        *)
(***************************************************************************)
GetWeight(s, i) ==
    LET w == get_weight_for_endicia(shipment[s].outgoing_moves[i])
    IN  /\ last' = Call("get_weight_for_endicia", <<s, i>>, <<>>, <<>>,
                        w.error, IF w.error = "" THEN <<w.value>> ELSE <<>>)
        /\ UNCHANGED <<shipment, attachment, pending>>

(***************************************************************************)
(* Specifications                                                          *)
(***************************************************************************)
NewShipment(state, carrier, mailclass, address, moves) ==
    [state |-> state, carrier |-> carrier, endicia_mailclass |-> mailclass,
     tracking_number |-> "", cost |-> 0, endicia_refunded |-> FALSE,
     warehouse_address |-> address, outgoing_moves |-> moves]

DefaultShipment ==
    NewShipment("packed", "endicia", "Priority", TRUE, <<WeighedMove>>)

\* Spec: every operation on two shipments that are otherwise ready for a
\* label: the first in any state with any carrier, the second a draft with
\* any carrier.
Init ==
    /\ \E state \in ShipmentStates, carrier1, carrier2 \in Carriers :
          shipment = [s \in Shipments |->
                         IF s = 1
                         THEN NewShipment(state, carrier1, "Priority", TRUE,
                                          <<WeighedMove>>)
                         ELSE NewShipment("draft", carrier2, "Priority",
                                          TRUE, <<WeighedMove>>)]
    /\ attachment = <<>>
    /\ pending = EmptyBag
    /\ last = NoCall

Next ==
    \/ \E s \in Shipments : make_endicia_labels(s)
    \/ \E call \in BagToSet(pending) : make_endicia_labels_resume(call)
    \/ \E s \in Shipments : get_endicia_shipping_cost(s)
    \/ \E call \in BagToSet(pending) : get_endicia_shipping_cost_resume(call)
    \/ \E s \in Shipments, carrier \in Carriers : set_carrier(s, carrier)
    \/ \E ids \in Selections : default_request_refund(ids)
    \/ \E call \in BagToSet(pending) : default_request_refund_resume(call)
    \/ \E ids \in Selections : default_make_scanform(ids)
    \/ \E call \in BagToSet(pending) : default_make_scanform_resume(call)
    \/ \E company \in Companies, amount \in Amounts :
           default_buy_postage(company, amount)
    \/ \E call \in BagToSet(pending) : default_buy_postage_resume(call)

Spec == Init /\ [][Next]_vars

\* SpecLabel: the label and cost requests on a first shipment in any
\* condition, beside a second one that is ready for a label.
MoveLists ==
    UNION {[1..n -> ShipmentMoves] : n \in 1..MaxMoves}

InitLabel ==
    /\ \E state \in ShipmentStates, carrier \in Carriers,
          mailclass \in Mailclasses, address \in BOOLEAN,
          moves \in MoveLists :
          shipment = [s \in Shipments |->
                         IF s = 1
                         THEN NewShipment(state, carrier, mailclass, address,
                                          moves)
                         ELSE DefaultShipment]
    /\ attachment = <<>>
    /\ pending = EmptyBag
    /\ last = NoCall

NextLabel ==
    \/ \E s \in Shipments : make_endicia_labels(s)
    \/ \E call \in BagToSet(pending) : make_endicia_labels_resume(call)
    \/ \E s \in Shipments : get_endicia_shipping_cost(s)
    \/ \E call \in BagToSet(pending) : get_endicia_shipping_cost_resume(call)
    \/ \E s \in Shipments, carrier \in Carriers : set_carrier(s, carrier)

SpecLabel == InitLabel /\ [][NextLabel]_vars

\* SpecWeight: get_weight_for_endicia on one move of any product, weight,
\* quantity and units.
Weights == {NoWeight} \cup {<<w>> : w \in 0..MaxWeight}

ProductTypes == {"goods", "service"}

InitWeight ==
    /\ \E type \in ProductTypes, w \in Weights, wu \in WeightUoms,
          q \in 1..MaxQuantity, u \in QuantityUoms, du \in QuantityUoms :
          shipment = [s \in Shipments |->
                         [DefaultShipment EXCEPT
                             !.outgoing_moves =
                                 IF s # 1 THEN <<>>
                                 ELSE IF type = "service"
                                 THEN <<Service(w, wu, q, u, du)>>
                                 ELSE <<Goods(w, wu, q, u, du)>>]]
    /\ attachment = <<>>
    /\ pending = EmptyBag
    /\ last = NoCall

NextWeight ==
    \E s \in Shipments :
        \E i \in 1..Len(shipment[s].outgoing_moves) : GetWeight(s, i)

SpecWeight == InitWeight /\ [][NextWeight]_vars

(***************************************************************************)
(* Properties                                                              *)
(***************************************************************************)
\* The step is the one of a call up to send_request(), where the call
\* ends in an error or joins the calls in flight; or the one of a call in
\* flight, from send_request() on.
CallStep   == BagCardinality(pending') >= BagCardinality(pending)
ReturnStep == BagCardinality(pending') < BagCardinality(pending)

LabelCall(s) ==
    last'.op = "make_endicia_labels" /\ last'.args = <<s>> /\ CallStep

LabelReturn(s) ==
    last'.op = "make_endicia_labels" /\ last'.args = <<s>> /\ ReturnStep

\* A make_endicia_labels call on shipment s waits in send_request().
LabelWaiting(calls, s) ==
    \E call \in BagToSet(calls) :
        call.op = "make_endicia_labels" /\ call.args = <<s>>

CostCall(s) ==
    last'.op = "get_endicia_shipping_cost" /\ last'.args = <<s>> /\ CallStep

NothingWritten == shipment' = shipment /\ attachment' = attachment

WeightMissing(move) ==
    move.type # "service" /\ (move.weight = <<>> \/ move.weight = <<0>>)

\* Some check that make_endicia_labels makes before sending fails on sh.
LabelPreconditionFails(sh) ==
    \/ sh.state \notin {"packed", "done"}
    \/ sh.carrier # "endicia"
    \/ sh.tracking_number # ""
    \/ sh.endicia_mailclass = ""
    \/ \E i \in 1..Len(sh.outgoing_moves) : WeightMissing(sh.outgoing_moves[i])
    \/ ~sh.warehouse_address

\* C1: make_endicia_labels writes tracking_number and cost and creates
\* attachments only after the vendor's label request succeeded: a call
\* whose precondition fails sends no request and ends in a user error, a
\* call whose request raises RequestError ends in a user error, and neither
\* these nor a call that waits for the vendor change a shipment or the
\* attachments; what is written is written by a call that got its answer.
C1_WritesOnlyAfterVendorSuccess ==
    [][/\ \A s \in Shipments :
            /\ LabelCall(s) =>
                   /\ NothingWritten
                   /\ last'.sent = <<>> => last'.error \in UserErrors
                   /\ LabelPreconditionFails(shipment[s]) => last'.sent = <<>>
            /\ (LabelReturn(s) /\ last'.reply = <<>>) =>
                   last'.error \in UserErrors /\ NothingWritten
            /\ (\/ shipment'[s].tracking_number # shipment[s].tracking_number
                \/ shipment'[s].cost # shipment[s].cost) =>
                   /\ LabelReturn(s)
                   /\ last'.reply # <<>> /\ last'.error = ""
       /\ attachment' # attachment =>
            /\ last'.op = "make_endicia_labels" /\ ReturnStep
            /\ last'.reply # <<>> /\ last'.error = ""]_vars

\* A label request ended in RequestError and left its shipment without
\* tracking number, while the other shipment has its label.
C1_Witness ==
    /\ last.op = "make_endicia_labels"
    /\ last.error = "error_label"
    /\ last.sent # <<>>
    /\ shipment[last.args[1]].tracking_number = ""
    /\ \E s \in Shipments : shipment[s].tracking_number # ""
    /\ attachment # <<>>

\* C2 as claimed: once tracking_number is non-empty, every later
\* make_endicia_labels call fails with 'tracking_number_already_present',
\* sends nothing and changes nothing.
C2_AlwaysTrackingNumberError ==
    [][\A s \in Shipments :
        (LabelCall(s) /\ shipment[s].tracking_number # "") =>
            /\ last'.error = "tracking_number_already_present"
            /\ last'.sent = <<>>
            /\ NothingWritten]_vars

\* C2, amended: every make_endicia_labels call on a shipment that has a
\* tracking number fails with a user error, sends nothing and changes
\* nothing; the error is 'tracking_number_already_present' when the
\* shipment is packed or done and its carrier is Endicia, else that of the
\* earlier check.  With the calls on the shipment made one after the other
\* (none of them still waiting for the vendor), the tracking number is
\* never replaced and no further label request of the shipment waits.
C2_OneLabelPerShipment ==
    [][\A s \in Shipments :
        shipment[s].tracking_number # "" =>
            /\ LabelCall(s) =>
                  /\ last'.error \in {"invalid_state", "wrong_carrier",
                                      "tracking_number_already_present"}
                  /\ (/\ shipment[s].state \in {"packed", "done"}
                      /\ shipment[s].carrier = "endicia") =>
                         last'.error = "tracking_number_already_present"
                  /\ last'.sent = <<>>
                  /\ NothingWritten
            /\ ~LabelWaiting(pending, s) =>
                  /\ shipment'[s].tracking_number
                        = shipment[s].tracking_number
                  /\ ~LabelWaiting(pending', s)]_vars

\* A second label call was refused because of the tracking number.
C2_Witness ==
    /\ last.op = "make_endicia_labels"
    /\ last.error = "tracking_number_already_present"
    /\ shipment[last.args[1]].tracking_number # ""
    /\ attachment # <<>>

\* C3: make_endicia_labels on a shipment that is neither packed nor done
\* fails with 'invalid_state' and sends nothing; a tracking_number changes
\* only in a make_endicia_labels call on a packed or done shipment.
C3_LabelsOnlyWhenPackedOrDone ==
    [][\A s \in Shipments :
        /\ (LabelCall(s) /\ shipment[s].state \notin {"packed", "done"}) =>
               last'.error = "invalid_state" /\ last'.sent = <<>>
        /\ shipment'[s].tracking_number # shipment[s].tracking_number =>
               LabelReturn(s) /\ shipment[s].state \in {"packed", "done"}]_vars

\* A draft shipment was refused while another shipment carries a label.
C3_Witness ==
    /\ last.op = "make_endicia_labels"
    /\ last.error = "invalid_state"
    /\ shipment[last.args[1]].state = "draft"
    /\ \E s \in Shipments : shipment[s].tracking_number # ""

WrongCarrier(s) == shipment[s].carrier # "endicia"

WizardCall(ids) ==
    /\ last'.op \in {"request_refund", "make_scanform"}
    /\ last'.args = ids
    /\ CallStep

\* C4 as claimed: a wrong carrier makes label generation, the refund wizard
\* and the SCAN-form wizard fail with 'wrong_carrier', without a request and
\* without a change.
C4_AlwaysWrongCarrierError ==
    [][/\ \A s \in Shipments :
            (LabelCall(s) /\ WrongCarrier(s)) =>
                /\ last'.error = "wrong_carrier"
                /\ last'.sent = <<>>
                /\ NothingWritten
       /\ \A ids \in Selections :
            (WizardCall(ids) /\ \E i \in 1..Len(ids) : WrongCarrier(ids[i])) =>
                /\ last'.error = "wrong_carrier"
                /\ last'.sent = <<>>
                /\ NothingWritten]_vars

\* C4, amended: with a wrong carrier the three operations fail with a user
\* error, without a request and without a change; the error is
\* 'wrong_carrier' for the two wizards, and for label generation when the
\* shipment is packed or done ('invalid_state' otherwise).
C4_WrongCarrierRejected ==
    [][/\ \A s \in Shipments :
            (LabelCall(s) /\ WrongCarrier(s)) =>
                /\ last'.error \in {"invalid_state", "wrong_carrier"}
                /\ shipment[s].state \in {"packed", "done"} =>
                       last'.error = "wrong_carrier"
                /\ last'.sent = <<>>
                /\ NothingWritten
       /\ \A ids \in Selections :
            (WizardCall(ids) /\ \E i \in 1..Len(ids) : WrongCarrier(ids[i])) =>
                /\ last'.error = "wrong_carrier"
                /\ last'.sent = <<>>
                /\ NothingWritten]_vars

\* A wizard refused two shipments of which only the second has a wrong
\* carrier.
C4_Witness ==
    /\ last.op \in {"request_refund", "make_scanform"}
    /\ last.error = "wrong_carrier"
    /\ Len(last.args) = 2
    /\ shipment[last.args[1]].carrier = "endicia"
    /\ shipment[last.args[2]].carrier = "product"

\* C5 as claimed: with an empty endicia_mailclass, make_endicia_labels and
\* get_endicia_shipping_cost fail with 'mailclass_missing' and send nothing.
C5_AlwaysMailclassError ==
    [][\A s \in Shipments :
        ((LabelCall(s) \/ CostCall(s)) /\ shipment[s].endicia_mailclass = "")
            => last'.error = "mailclass_missing" /\ last'.sent = <<>>]_vars

\* C5, amended: with an empty endicia_mailclass neither operation sends a
\* request; get_endicia_shipping_cost fails with 'mailclass_missing', and
\* make_endicia_labels fails with 'mailclass_missing' unless its state,
\* carrier or tracking-number check fails first.
C5_NoMailclassNoRequest ==
    [][\A s \in Shipments :
        shipment[s].endicia_mailclass = "" =>
            /\ CostCall(s) =>
                   last'.error = "mailclass_missing" /\ last'.sent = <<>>
            /\ LabelCall(s) =>
                   /\ last'.error \in {"invalid_state", "wrong_carrier",
                                       "tracking_number_already_present",
                                       "mailclass_missing"}
                   /\ (/\ shipment[s].state \in {"packed", "done"}
                       /\ shipment[s].carrier = "endicia"
                       /\ shipment[s].tracking_number = "") =>
                          last'.error = "mailclass_missing"
                   /\ last'.sent = <<>>]_vars

\* A label call was refused for the missing mail class alone.
C5_Witness ==
    /\ last.op = "make_endicia_labels"
    /\ last.error = "mailclass_missing"
    /\ shipment[last.args[1]].endicia_mailclass = ""

WeightCall == last.op = "get_weight_for_endicia"

\* The move the last get_weight_for_endicia call was made on.
WeighedStockMove == shipment[last.args[1]].outgoing_moves[last.args[2]]

\* The nearest integer to n/d, a half rounded up, for n >= 0 and d > 0.
NearestInteger(n, d) == (2 * n + d) \div (2 * d)

\* The quantity of the move in the product's default unit, as a fraction:
\* converted (and rounded to that unit's precision) only when the move's
\* unit is another one.
QuantityInDefaultUom(move) ==
    IF move.uom # move.default_uom
    THEN [n |-> NearestInteger(
                    move.quantity * move.uom.factor * move.default_uom.rounding,
                    4 * move.default_uom.factor),
          d |-> move.default_uom.rounding]
    ELSE [n |-> move.quantity, d |-> 4]

\* Weight per unit times quantity, in ounces, as a fraction.
WeightInOunces(move) ==
    LET q == QuantityInDefaultUom(move)
        n == move.weight[1] * q.n
        d == 100 * q.d
    IN  IF move.weight_uom.symbol # "oz"
        THEN [n |-> NearestInteger(n * move.weight_uom.factor * 100, d),
              d |-> 100]
        ELSE [n |-> n, d |-> d]

\* C6: for a move of a non-service product with a weight,
\* get_weight_for_endicia returns the smallest integer not less than the
\* weight per unit times the quantity in the product's default unit, in
\* ounces.
C6_RoundedUpOunces ==
    (WeightCall /\ ~WeightMissing(WeighedStockMove)
                /\ WeighedStockMove.type # "service") =>
        LET w == WeightInOunces(WeighedStockMove)
        IN  /\ last.error = ""
            /\ \E r \in 0..(w.n + 1) :
                  /\ last.result = <<r>>
                  /\ r * w.d >= w.n
                  /\ (r - 1) * w.d < w.n

\* C7: get_weight_for_endicia fails with 'weight_required' exactly when the
\* product is not a service and its weight is missing or zero; it raises
\* nothing else, and returns 0 for a service.
C7_WeightRequired ==
    WeightCall =>
        /\ last.error \in {"", "weight_required"}
        /\ last.error = "weight_required" <=> WeightMissing(WeighedStockMove)
        /\ WeighedStockMove.type = "service" =>
               last.error = "" /\ last.result = <<0>>

\* The weight of a product whose weight is zero was asked for.
C7_Witness ==
    /\ WeightCall
    /\ last.error = "weight_required"
    /\ WeighedStockMove.weight = <<0>>

\* C8: endicia_refunded becomes True only in a refund run that the vendor
\* approved; a run that is not approved changes nothing and reports
\* refund_approved = False; refund_status is the vendor's ErrorMsg.
C8_RefundFollowsApproval ==
    [][/\ \A s \in Shipments :
            (shipment'[s].endicia_refunded /\ ~shipment[s].endicia_refunded)
                => /\ last'.op = "request_refund"
                   /\ last'.reply # <<>>
                   /\ last'.reply[1][1].IsApproved = "YES"
       /\ (last'.op = "request_refund" /\ last'.reply # <<>>) =>
            LET entry  == last'.reply[1][1]
                result == last'.result[1]
            IN  /\ entry.IsApproved # "YES" =>
                       NothingWritten /\ result.refund_approved = FALSE
                /\ entry.IsApproved = "YES" => result.refund_approved = TRUE
                /\ result.refund_status = <<entry.ErrorMsg>>]_vars

\* A refund was denied after another one had been approved.
C8_Witness ==
    /\ last.op = "request_refund"
    /\ last.reply # <<>>
    /\ last.reply[1][1].IsApproved = "NO"
    /\ \E s \in Shipments : shipment[s].endicia_refunded

\* C9: the SCAN-form wizard creates one attachment 'SCAN<SubmissionID>.png'
\* on a selected shipment and answers 'SCAN<SubmissionID>' when the
\* response holds a SCANForm; else it creates none and answers the vendor's
\* ErrorMsg; no shipment changes.
C9_ScanFormAttachment ==
    [][(last'.op = "make_scanform" /\ last'.reply # <<>>) =>
        LET ids      == last'.args
            response == last'.reply[1]
            result   == last'.result[1]
            n        == Len(attachment)
        IN  /\ shipment' = shipment
            /\ IF response.SCANForm
               THEN /\ Len(attachment') = n + 1
                    /\ SubSeq(attachment', 1, n) = attachment
                    /\ attachment'[n + 1].name
                           = <<"SCAN", response.SubmissionID, ".png">>
                    /\ \E i \in 1..Len(ids) :
                          attachment'[n + 1].resource
                              = <<"stock.shipment.out", ",", ids[i]>>
                    /\ result.response = <<"SCAN", response.SubmissionID>>
               ELSE /\ attachment' = attachment
                    /\ result.response = <<response.ErrorMsg>>]_vars

\* A SCAN form was stored beside an attachment that existed before.
C9_Witness ==
    /\ last.op = "make_scanform"
    /\ last.reply # <<>>
    /\ last.reply[1].SCANForm
    /\ Len(attachment) = 2
    /\ attachment[2].name = <<"SCAN", "77", ".png">>

\* C10: the postage wizard answers 'Success' exactly when the response has
\* no ErrorMessage and else the ErrorMessage, returns the company and the
\* amount entered, and changes no shipment, move or attachment.
C10_BuyPostageReport ==
    [][/\ last'.op = "buy_postage" => NothingWritten
       /\ (last'.op = "buy_postage" /\ last'.reply # <<>>) =>
            LET response == last'.reply[1]
                result   == last'.result[1]
            IN  /\ result.response = <<"Success">>
                       <=> ~response.hasErrorMessage
                /\ response.hasErrorMessage =>
                       result.response = <<response.ErrorMessage>>
                /\ result.company = last'.args[1]
                /\ result.amount = last'.args[2]]_vars

\* The vendor refused a purchase while a label existed.
C10_Witness ==
    /\ last.op = "buy_postage"
    /\ last.reply # <<>>
    /\ last.reply[1].hasErrorMessage
    /\ last.result[1].response = <<"declined">>
    /\ \E s \in Shipments : shipment[s].tracking_number # ""
    /\ attachment # <<>>

\* C11: when a refund run over selected Endicia shipments is answered as
\* approved (every entry of the response says 'YES'), every selected
\* shipment ends with endicia_refunded = True.
C11_AllSelectedRefunded ==
    [][\A ids \in Selections :
        (/\ last'.op = "request_refund"
         /\ last'.args = ids
         /\ last'.reply # <<>>
         /\ \A i \in 1..Len(ids) : last'.reply[1][i].IsApproved = "YES") =>
            \A i \in 1..Len(ids) : shipment'[ids[i]].endicia_refunded]_vars

(***************************************************************************)
(* SpecOrder: make_endicia_labels on a first shipment in any condition,    *)
(* with or without a tracking number when it is packed or done (where the  *)
(* field can be edited), beside a second one that is ready for a label.    *)
(***************************************************************************)
TrackingNumbers == {"", "9400"}

InitOrder ==
    /\ \E state \in ShipmentStates, carrier \in Carriers,
          mailclass \in Mailclasses, address \in BOOLEAN,
          moves \in MoveLists, tracking_number \in TrackingNumbers :
          /\ tracking_number # "" => state \in {"packed", "done"}
          /\ shipment =
                 [s \in Shipments |->
                     IF s = 1
                     THEN [NewShipment(state, carrier, mailclass, address,
                                       moves)
                              EXCEPT !.tracking_number = tracking_number]
                     ELSE DefaultShipment]
    /\ attachment = <<>>
    /\ pending = EmptyBag
    /\ last = NoCall

NextOrder ==
    \/ \E s \in Shipments : make_endicia_labels(s)
    \/ \E call \in BagToSet(pending) : make_endicia_labels_resume(call)

SpecOrder == InitOrder /\ [][NextOrder]_vars

\* The first check that fails on sh, in the order state, carrier, tracking
\* number, mail class, weights of the moves, warehouse address; "" if none.
FirstFailingCheck(sh) ==
    IF sh.state \notin {"packed", "done"} THEN "invalid_state"
    ELSE IF sh.carrier # "endicia" THEN "wrong_carrier"
    ELSE IF sh.tracking_number # "" THEN "tracking_number_already_present"
    ELSE IF sh.endicia_mailclass = "" THEN "mailclass_missing"
    ELSE IF \E i \in 1..Len(sh.outgoing_moves) :
                WeightMissing(sh.outgoing_moves[i]) THEN "weight_required"
    ELSE IF ~sh.warehouse_address THEN "warehouse_address_required"
    ELSE ""

\* C12: make_endicia_labels reports the first precondition that fails, in
\* the order state, carrier, tracking number, mail class, weights of the
\* moves, warehouse address, and sends no request when one fails; a request
\* is sent only when none fails.
C12_FirstFailingCheckReported ==
    [][\A s \in Shipments :
        LabelCall(s) =>
            LET error == FirstFailingCheck(shipment[s])
            IN  IF error # ""
                THEN last'.error = error /\ last'.sent = <<>>
                ELSE last'.sent # <<>> /\ last'.error = ""]_vars

\* A packed Endicia shipment with a tracking number and no mail class was
\* refused because of the tracking number.
C12_Witness ==
    /\ last.op = "make_endicia_labels"
    /\ last.error = "tracking_number_already_present"
    /\ shipment[last.args[1]].state = "packed"
    /\ shipment[last.args[1]].carrier = "endicia"
    /\ shipment[last.args[1]].endicia_mailclass = ""

\* The least integer not less than the weight of the move in ounces; 0 for
\* a service.
RoundedUpOunces(move) ==
    IF move.type = "service" THEN 0
    ELSE LET w == WeightInOunces(move)
         IN  (w.n + w.d - 1) \div w.d

\* Every weight in ounces is a whole number of parts of 1/400 oz
\* (hundredths of the weight unit times quarters of the quantity).
PartsPerOunce == 100 * 4

OunceParts(move) ==
    IF move.type = "service" THEN 0
    ELSE LET w == WeightInOunces(move)
         IN  w.n * (PartsPerOunce \div w.d)

RECURSIVE SumRoundedUpOunces(_, _)
SumRoundedUpOunces(moves, i) ==
    IF i > Len(moves) THEN 0
    ELSE RoundedUpOunces(moves[i]) + SumRoundedUpOunces(moves, i + 1)

RECURSIVE TotalOunceParts(_, _)
TotalOunceParts(moves, i) ==
    IF i > Len(moves) THEN 0
    ELSE OunceParts(moves[i]) + TotalOunceParts(moves, i + 1)

WeighedMoves(moves) ==
    Cardinality({i \in 1..Len(moves) : moves[i].type # "service"})

\* C13: the weight sent by make_endicia_labels and by
\* get_endicia_shipping_cost is the sum of the rounded-up ounce weights of
\* the outgoing moves (0 for a service); with n >= 1 weighed moves it is at
\* least the total weight and less than the total weight plus n.
C13_SumOfRoundedUpWeights ==
    (/\ last.op \in {"make_endicia_labels", "get_endicia_shipping_cost"}
     /\ last.sent # <<>>) =>
        LET moves == shipment[last.args[1]].outgoing_moves
            sent  == last.sent[1].weight_oz
            total == TotalOunceParts(moves, 1)
            n     == WeighedMoves(moves)
        IN  /\ sent = SumRoundedUpOunces(moves, 1)
            /\ n >= 1 => /\ sent * PartsPerOunce >= total
                         /\ sent * PartsPerOunce < total + n * PartsPerOunce

(***************************************************************************)
(* SpecRefund: the label, refund, SCAN-form and postage operations alone,  *)
(* from the initial states of Spec.                                        *)
(***************************************************************************)
NextRefund ==
    \/ \E s \in Shipments : make_endicia_labels(s)
    \/ \E call \in BagToSet(pending) : make_endicia_labels_resume(call)
    \/ \E ids \in Selections : default_request_refund(ids)
    \/ \E call \in BagToSet(pending) : default_request_refund_resume(call)
    \/ \E ids \in Selections : default_make_scanform(ids)
    \/ \E call \in BagToSet(pending) : default_make_scanform_resume(call)
    \/ \E company \in Companies, amount \in Amounts :
           default_buy_postage(company, amount)
    \/ \E call \in BagToSet(pending) : default_buy_postage_resume(call)

SpecRefund == Init /\ [][NextRefund]_vars

\* C14: the refund wizard changes no tracking_number and no cost; no
\* operation resets endicia_refunded; and in any sequence of label, refund,
\* SCAN-form and postage operations make_endicia_labels called on a
\* refunded shipment that carries a tracking number fails with
\* 'tracking_number_already_present', sending and changing nothing, and
\* the shipment keeps its tracking number from one operation to the next
\* (no label call on it still waiting for the vendor).
C14_RefundedStaysRefunded ==
    [][/\ last'.op = "request_refund" =>
            \A s \in Shipments :
                /\ shipment'[s].tracking_number = shipment[s].tracking_number
                /\ shipment'[s].cost = shipment[s].cost
       /\ \A s \in Shipments :
            shipment[s].endicia_refunded => shipment'[s].endicia_refunded
       /\ \A s \in Shipments :
            (shipment[s].endicia_refunded
                /\ shipment[s].tracking_number # "") =>
                /\ LabelCall(s) =>
                       /\ last'.error = "tracking_number_already_present"
                       /\ last'.sent = <<>>
                       /\ NothingWritten
                /\ ~LabelWaiting(pending, s) =>
                       /\ shipment'[s].tracking_number
                             = shipment[s].tracking_number
                       /\ ~LabelWaiting(pending', s)]_vars

\* A label call on a refunded shipment was refused because of its tracking
\* number.
C14_Witness ==
    /\ last.op = "make_endicia_labels"
    /\ last.error = "tracking_number_already_present"
    /\ shipment[last.args[1]].endicia_refunded
    /\ shipment[last.args[1]].tracking_number # ""
    /\ shipment[last.args[1]].cost # 0

=============================================================================
